---- MODULE Spec2Model ----
(***************************************************************************)
(* Model of BayesBets' Betfair stream cleaner (src/clean_data.py) and its  *)
(* driver (src/main.py).                                                   *)
(*                                                                         *)
(* Values.  A JSON object is a record whose fields are the keys the code   *)
(* reads; dict.get on a missing key gives None, so a missing key and a     *)
(* null are both None (string fields) or NoneN (numeric fields).  Key      *)
(* presence that the code tests with `in` is an explicit field             *)
(* (hasDef, runnersKind, rcKind).  market ids, runner ids and publish      *)
(* times are integers so that the sort order is defined; pd.to_datetime    *)
(* is order preserving and injective on them and is not modelled further.  *)
(***************************************************************************)
EXTENDS Integers, Sequences, FiniteSets, TLC

None == "None"
NoneN == 0

\* ---------------------------------------------------------------- helpers
RECURSIVE Flatten(_)
Flatten(ss) == IF ss = <<>> THEN <<>> ELSE Head(ss) \o Flatten(Tail(ss))

Front(s) == SubSeq(s, 1, Len(s) - 1)

Range(s) == {s[i] : i \in DOMAIN s}

\* ------------------------------------------------------- read_betfair_bz2
\* A file is [readable, lines]; an undecodable file gives the empty frame.
read_betfair_bz2(file_path) ==
    IF file_path.readable THEN file_path.lines ELSE <<>>

\* --------------------------------------------------- parse_betfair_stream
\* lines 26-37: the blocks of one record (absent / null / [] give none,
\* a single object is wrapped in a list)
McDataListOnly(row) ==
    IF row.mcKind = "list" THEN row.mc ELSE <<>>

McData(row) ==
    IF row.mcKind \in {"absent", "null"} THEN <<>>
    ELSE IF row.mcKind = "list" THEN row.mc
    ELSE <<row.mc[1]>>

\* the (record, block) pairs of a frame in iteration order
Pairs(df) ==
    Flatten([i \in DOMAIN df |->
        [j \in DOMAIN McData(df[i]) |-> [pt |-> df[i].pt, market |-> McData(df[i])[j]]]])

MarketRecord(p) ==
    LET mkt_def == p.market.marketDefinition[1] IN
    [market_id |-> p.market.id,
     publish_time |-> p.pt,
     status |-> mkt_def.status,
     in_play |-> mkt_def.inPlay,
     number_of_active_runners |-> mkt_def.numberOfActiveRunners,
     total_matched |-> mkt_def.totalMatched,
     version |-> mkt_def.version]

RunnerStaticRecord(p, runner) ==
    [market_id |-> p.market.id,
     publish_time |-> p.pt,
     runner_id |-> runner.id,
     runner_name |-> runner.name,
     status |-> runner.status,
     removal_date |-> IF runner.removalDate # NoneN THEN runner.removalDate ELSE NoneN]

RunnerChangeRecord(p, rc) ==
    [market_id |-> p.market.id,
     publish_time |-> p.pt,
     runner_id |-> rc.id,
     ltp |-> rc.ltp,
     tv |-> rc.tv,
     batb |-> rc.batb,
     batl |-> rc.batl,
     spn |-> rc.spn,
     spf |-> rc.spf]

HasDef(market) == market.marketDefinition # <<>>

\* iterating a non-list "runners" / "rc" value raises TypeError
ParseRaisesOn(market) ==
    \/ HasDef(market) /\ market.marketDefinition[1].runnersKind = "scalar"
    \/ market.rcKind = "scalar"

NoFrames == [raised |-> FALSE, m |-> <<>>, rs |-> <<>>, rc |-> <<>>]

parse_betfair_stream(df) ==
    IF df = <<>> THEN NoFrames
    ELSE
      LET ps == Pairs(df)
          market_records ==
            Flatten([k \in DOMAIN ps |->
                IF HasDef(ps[k].market) THEN <<MarketRecord(ps[k])>> ELSE <<>>])
          runner_static_records ==
            Flatten([k \in DOMAIN ps |->
                IF HasDef(ps[k].market) /\ ps[k].market.marketDefinition[1].runnersKind = "list"
                THEN [n \in DOMAIN ps[k].market.marketDefinition[1].runners |->
                        RunnerStaticRecord(ps[k], ps[k].market.marketDefinition[1].runners[n])]
                ELSE <<>>])
          runner_change_records ==
            Flatten([k \in DOMAIN ps |->
                IF ps[k].market.rcKind = "list"
                THEN [n \in DOMAIN ps[k].market.rc |-> RunnerChangeRecord(ps[k], ps[k].market.rc[n])]
                ELSE <<>>])
      IN IF \E k \in DOMAIN ps : ParseRaisesOn(ps[k].market)
         THEN [raised |-> TRUE, m |-> <<>>, rs |-> <<>>, rc |-> <<>>]
         ELSE [raised |-> FALSE, m |-> market_records, rs |-> runner_static_records,
               rc |-> runner_change_records]

\* ------------------------------------------------ pandas frame operations
\* DataFrame.drop_duplicates(subset=..., keep="first"); subset[i] is the tuple
\* of the subset columns of rows[i]
drop_duplicates(rows, subset) ==
    LET F[i \in 0..Len(rows)] ==
          IF i = 0 THEN <<>>
          ELSE IF \E j \in 1..(i - 1) : subset[j] = subset[i]
               THEN F[i - 1]
               ELSE Append(F[i - 1], rows[i])
    IN F[Len(rows)]

\* ordering of one sort column, nulls last (na_position="last")
LessN(x, y) == x # NoneN /\ (y = NoneN \/ x < y)

LessKey(a, b) ==
    \/ LessN(a.market_id, b.market_id)
    \/ a.market_id = b.market_id /\ LessN(a.publish_time, b.publish_time)

InsertRowBeforeTies(s, r) ==
    LET later == {i \in DOMAIN s : ~LessKey(s[i], r)}
        k == IF later = {} THEN Len(s) + 1 ELSE CHOOSE i \in later : \A j \in later : i <= j
    IN SubSeq(s, 1, k - 1) \o <<r>> \o SubSeq(s, k, Len(s))

\* insert r behind every row that is not greater than it
InsertRow(s, r) ==
    LET later == {i \in DOMAIN s : LessKey(r, s[i])}
        k == IF later = {} THEN Len(s) + 1 ELSE CHOOSE i \in later : \A j \in later : i <= j
    IN SubSeq(s, 1, k - 1) \o <<r>> \o SubSeq(s, k, Len(s))

\* DataFrame.sort_values(["market_id", "publish_time"]): a lexsort, stable
RECURSIVE sort_values(_)
sort_values(rows) ==
    IF rows = <<>> THEN <<>> ELSE InsertRow(sort_values(Front(rows)), rows[Len(rows)])

\* ------------------------------------------------ create_reference_tables
MarketMetadata(market) ==
    LET mkt_def == market.marketDefinition[1] IN
    [market_id |-> market.id,
     event_id |-> mkt_def.eventId,
     event_name |-> mkt_def.eventName,
     event_type_id |-> mkt_def.eventTypeId,
     market_name |-> mkt_def.name,
     market_type |-> mkt_def.marketType,
     market_time |-> IF mkt_def.marketTime # NoneN THEN mkt_def.marketTime ELSE NoneN,
     venue |-> mkt_def.venue,
     country_code |-> mkt_def.countryCode,
     number_of_winners |-> mkt_def.numberOfWinners]

RunnerMetadata(market, runner) ==
    [market_id |-> market.id, runner_id |-> runner.id, runner_name |-> runner.name]

MarketRefKey(r) == r.market_id
RunnerRefKeyMarketOnly(r) == r.market_id
RunnerRefKey(r) == <<r.market_id, r.runner_id>>

\* the definition-bearing blocks of all retained frames, in traversal order
DefBlocks(df_list) ==
    LET ps == Flatten([f \in DOMAIN df_list |-> Pairs(df_list[f])])
    IN Flatten([k \in DOMAIN ps |-> IF HasDef(ps[k].market) THEN <<ps[k].market>> ELSE <<>>])

create_reference_tables(df_list) ==
    LET defs == DefBlocks(df_list)
        market_metadata == [k \in DOMAIN defs |-> MarketMetadata(defs[k])]
        runner_metadata ==
            Flatten([k \in DOMAIN defs |->
                IF defs[k].marketDefinition[1].runnersKind = "list"
                THEN [n \in DOMAIN defs[k].marketDefinition[1].runners |->
                        RunnerMetadata(defs[k], defs[k].marketDefinition[1].runners[n])]
                ELSE <<>>])
    IN IF \E k \in DOMAIN defs : defs[k].marketDefinition[1].runnersKind = "scalar"
       THEN [raised |-> TRUE, market_ref |-> <<>>, runner_ref |-> <<>>]
       ELSE [raised |-> FALSE,
             market_ref |-> drop_duplicates(market_metadata,
                              [k \in DOMAIN market_metadata |-> MarketRefKey(market_metadata[k])]),
             runner_ref |-> drop_duplicates(runner_metadata,
                              [k \in DOMAIN runner_metadata |-> RunnerRefKey(runner_metadata[k])])]

\* ------------------------------------------------------------ input data
MkRunner(id, name, status) ==
    [id |-> id, name |-> name, status |-> status, removalDate |-> NoneN]

MkDef(status, inPlay, version, name, runnersKind, runners) ==
    [status |-> status, inPlay |-> inPlay, numberOfActiveRunners |-> 2,
     totalMatched |-> 100, version |-> version,
     eventId |-> "e", eventName |-> None, eventTypeId |-> "7", name |-> name,
     marketType |-> "WIN", marketTime |-> NoneN, venue |-> None,
     countryCode |-> "GB", numberOfWinners |-> 1,
     runnersKind |-> runnersKind, runners |-> runners]

MkChange(id, ltp) ==
    [id |-> id, ltp |-> ltp, tv |-> NoneN, batb |-> None, batl |-> None,
     spn |-> NoneN, spf |-> NoneN]

MkBlock(id, defOpt, rcKind, rc) ==
    [id |-> id, marketDefinition |-> defOpt, rcKind |-> rcKind, rc |-> rc]

MkRow(pt, mcKind, mc) == [pt |-> pt, mcKind |-> mcKind, mc |-> mc]

MkFile(lines) == [readable |-> TRUE, lines |-> lines]

Unreadable == [readable |-> FALSE, lines |-> <<>>]

\* bounds of the explored inputs
MaxDay == 2
MaxFiles == 2
MaxRecords == 2
MaxBlocks == 1

\* the files a month directory may hold
FileDefRc ==
    MkFile(<<MkRow(2, "list",
        <<MkBlock(1, <<MkDef("OPEN", FALSE, 1, None, "list", <<MkRunner(10, None, "ACTIVE")>>)>>,
                  "list", <<MkChange(10, 1)>>)>>)>>)
FileSuspended ==
    MkFile(<<MkRow(1, "list",
        <<MkBlock(1, <<MkDef("SUSPENDED", FALSE, 1, "A", "list", <<MkRunner(10, "A", "REMOVED")>>)>>,
                  "absent", <<>>)>>)>>)
FileTwoDefs ==
    MkFile(<<MkRow(1, "dict",
                <<MkBlock(1, <<MkDef("OPEN", FALSE, 1, "B", "list", <<MkRunner(10, "B", "ACTIVE")>>)>>,
                          "absent", <<>>)>>),
             MkRow(2, "list",
                <<MkBlock(2, <<MkDef("OPEN", TRUE, 2, None, "list",
                                     <<MkRunner(10, "B", "ACTIVE"), MkRunner(11, "C", "ACTIVE")>>)>>,
                          "absent", <<>>),
                  MkBlock(1, <<MkDef("OPEN", FALSE, 2, "A", "list", <<MkRunner(11, None, "ACTIVE")>>)>>,
                          "absent", <<>>)>>)>>)
FilePrices ==
    MkFile(<<MkRow(NoneN, "absent", <<>>),
             MkRow(2, "list",
                <<MkBlock(2, <<>>, "list", <<MkChange(10, 2)>>),
                  MkBlock(1, <<>>, "list", <<MkChange(11, 3)>>)>>),
             MkRow(1, "null", <<>>),
             MkRow(1, "list",
                <<MkBlock(1, <<MkDef("OPEN", TRUE, 1, "A", "absent", <<>>)>>,
                          "list", <<MkChange(10, 4), MkChange(11, 5)>>),
                  MkBlock(1, <<>>, "absent", <<>>)>>),
             MkRow(NoneN, "dict", <<MkBlock(NoneN, <<>>, "list", <<MkChange(10, 6)>>)>>)>>)
FileBadRc ==
    MkFile(<<MkRow(1, "list",
        <<MkBlock(2, <<MkDef("OPEN", FALSE, 1, "A", "list", <<MkRunner(10, "A", "ACTIVE")>>)>>,
                  "scalar", <<>>)>>)>>)
FileBadRunners ==
    MkFile(<<MkRow(1, "list",
        <<MkBlock(1, <<MkDef("OPEN", FALSE, 1, "A", "scalar", <<>>)>>, "absent", <<>>)>>)>>)
Files ==
    {Unreadable, FileDefRc, FileSuspended, FileTwoDefs, FilePrices, FileBadRc,
     FileBadRunners}

\* day directories are named by their number; names of stale price files
DayNames == 1..MaxDay
StaleNames == {1}

SeqsUpTo(S, n) == UNION {[1..k -> S] : k \in 0..n}

\* a month directory: absent, or day directories holding files in read order
NoTree == [exists |-> FALSE, days |-> <<>>]

TreesOver(F, maxDay, maxFiles) ==
    {NoTree} \cup
    {[exists |-> TRUE,
      days |-> [d \in S |-> Flatten([i \in DOMAIN fl |-> IF at[i] = d THEN <<fl[i]>> ELSE <<>>])]] :
        <<S, fl, at>> \in
          {t \in (SUBSET (1..maxDay)) \X SeqsUpTo(F, maxFiles) \X SeqsUpTo(1..maxDay, maxFiles) :
              /\ Len(t[3]) = Len(t[2])
              /\ Range(t[3]) \subseteq t[1]
              /\ \A i \in 1..(Len(t[3]) - 1) : t[3][i] <= t[3][i + 1]}}

MonthTrees == TreesOver(Files, MaxDay, MaxFiles)

\* ------------------------------------------------------------------ state
VARIABLES
    todo,                   \* main: the (year, month) pairs still to be processed
    call,                   \* arguments of the running process_month call
    pc,                     \* position of process_month
    fs,                     \* base_path/year/month as found on disk
    stale,                  \* days with a price file in output_path before the call
    made_dir,               \* output_path.mkdir has run
    days, dayIdx,           \* sorted day directories and the loop position
    bz2_files, fileIdx,     \* files of the current day and the loop position
    df, parsed,             \* last decoded frame and what the parser returned for it
    all_markets, all_runner_static, all_raw_dfs,
    day_runner_changes,
    daily_prices_dir,       \* price files written by this call: day -> rows
    market_ref, runner_ref, combined_markets, combined_runner_static,
    written,                \* monthly tables written by this call: name -> rows
    result                  \* what process_month returned

vars == <<todo, call, pc, fs, stale, made_dir, days, dayIdx, bz2_files, fileIdx, df, parsed,
          all_markets, all_runner_static, all_raw_dfs, day_runner_changes,
          daily_prices_dir, market_ref, runner_ref, combined_markets,
          combined_runner_static, written, result>>

NoResult == [returned |-> FALSE, none |-> FALSE,
             num_markets |-> 0, num_runners |-> 0, num_daily_files |-> 0]

\* locals of one process_month call before it starts
CallLocals ==
    /\ fs = NoTree
    /\ stale = {}
    /\ made_dir = FALSE
    /\ days = <<>>
    /\ dayIdx = 0
    /\ bz2_files = <<>>
    /\ fileIdx = 1
    /\ parsed = NoFrames
    /\ all_markets = <<>>
    /\ all_runner_static = <<>>
    /\ all_raw_dfs = <<>>
    /\ day_runner_changes = <<>>
    /\ daily_prices_dir = <<>>
    /\ market_ref = <<>>
    /\ runner_ref = <<>>
    /\ combined_markets = <<>>
    /\ combined_runner_static = <<>>
    /\ written = <<>>
    /\ result = NoResult

\* clean_data.py run as a script: one call, for 2024/Dec
Init ==
    /\ todo = <<>>
    /\ call = <<2024, "Dec">>
    /\ pc = "Idle"
    /\ df = <<>>
    /\ CallLocals

\* sorted(..., key=lambda d: int(d.name))
RECURSIVE SortDays(_)
SortDays(listing) ==
    IF listing = <<>> THEN <<>>
    ELSE LET rest == SortDays(Front(listing))
             d == listing[Len(listing)]
             later == {i \in DOMAIN rest : d < rest[i]}
             k == IF later = {} THEN Len(rest) + 1
                  ELSE CHOOSE i \in later : \A j \in later : i <= j
         IN SubSeq(rest, 1, k - 1) \o <<d>> \o SubSeq(rest, k, Len(rest))

\* the orders in which iterdir may list a set of directories
Listings(S) ==
    {l \in [1..Cardinality(S) -> S] : \A i, j \in DOMAIN l : i # j => l[i] # l[j]}

MonthPathExistsUnchecked(tree) == TRUE

\* line 200: month_path.exists()
MonthPathExists(tree) == tree.exists

\* lines 197-213: missing month directory -> return None; else mkdir, list days
Call(Trees) ==
    /\ pc = "Idle"
    /\ \E tree \in Trees, st \in SUBSET StaleNames :
        /\ fs' = tree
        /\ stale' = st
        /\ IF ~MonthPathExists(tree)
           THEN /\ pc' = "Skipped"
                /\ result' = [NoResult EXCEPT !.returned = TRUE, !.none = TRUE]
                /\ UNCHANGED <<made_dir, days>>
           ELSE /\ pc' = "Empty"
                /\ made_dir' = TRUE
                /\ \E listing \in Listings(DOMAIN tree.days) : days' = SortDays(listing)
                /\ UNCHANGED result
    /\ UNCHANGED <<todo, call, dayIdx, bz2_files, fileIdx, df, parsed, all_markets,
                   all_runner_static, all_raw_dfs, day_runner_changes, daily_prices_dir,
                   market_ref, runner_ref, combined_markets, combined_runner_static, written>>

\* lines 215-220: next day, list its files, fresh price buffer
BeginDay ==
    /\ pc \in {"Empty", "DayFlushed"}
    /\ dayIdx < Len(days)
    /\ dayIdx' = dayIdx + 1
    /\ bz2_files' = fs.days[days[dayIdx + 1]]
    /\ fileIdx' = 1
    /\ day_runner_changes' = <<>>
    /\ pc' = "Accumulating"
    /\ UNCHANGED <<todo, call, fs, stale, made_dir, days, df, parsed, all_markets,
                   all_runner_static, all_raw_dfs, daily_prices_dir, market_ref, runner_ref,
                   combined_markets, combined_runner_static, written, result>>

AppendIfRows(frames, rows) == IF rows # <<>> THEN Append(frames, rows) ELSE frames

\* lines 223-244: one file of the day (the batches of 100 are visited in order)
ProcessFile ==
    /\ pc = "Accumulating"
    /\ fileIdx <= Len(bz2_files)
    /\ LET frame == read_betfair_bz2(bz2_files[fileIdx])
           p == parse_betfair_stream(frame)
       IN /\ df' = frame
          /\ IF frame = <<>>
             THEN UNCHANGED <<parsed, all_raw_dfs, all_markets, all_runner_static,
                              day_runner_changes>>
             ELSE /\ all_raw_dfs' = Append(all_raw_dfs, frame)
                  /\ parsed' = p
                  /\ IF p.raised
                     THEN UNCHANGED <<all_markets, all_runner_static, day_runner_changes>>
                     ELSE /\ all_markets' = AppendIfRows(all_markets, p.m)
                          /\ all_runner_static' = AppendIfRows(all_runner_static, p.rs)
                          /\ day_runner_changes' = AppendIfRows(day_runner_changes, p.rc)
    /\ fileIdx' = fileIdx + 1
    /\ UNCHANGED <<todo, call, pc, fs, stale, made_dir, days, dayIdx, bz2_files,
                   daily_prices_dir, market_ref, runner_ref, combined_markets,
                   combined_runner_static, written, result>>

\* lines 246-256: concatenate, sort and write the day's prices
FlushDay ==
    /\ pc = "Accumulating"
    /\ fileIdx > Len(bz2_files)
    /\ daily_prices_dir' =
         IF day_runner_changes # <<>>
         THEN (days[dayIdx] :> sort_values(Flatten(day_runner_changes))) @@ daily_prices_dir
         ELSE daily_prices_dir
    /\ pc' = "DayFlushed"
    /\ UNCHANGED <<todo, call, fs, stale, made_dir, days, dayIdx, bz2_files, fileIdx, df,
                   parsed, all_markets, all_runner_static, all_raw_dfs, day_runner_changes,
                   market_ref, runner_ref, combined_markets, combined_runner_static,
                   written, result>>

MarketTimelineKeyNoStatus(r) == <<r.market_id, r.in_play, r.version>>
MarketTimelineKey(r) == <<r.market_id, r.status, r.in_play, r.version>>
RunnerStatusKeyWithTime(r) == <<r.market_id, r.runner_id, r.status, r.publish_time>>
RunnerStatusKey(r) == <<r.market_id, r.runner_id, r.status>>

DayLoopDoneAnytime == TRUE

\* line 215: the loop over the days is exhausted
DayLoopDone == dayIdx = Len(days)

\* lines 258-279: reference tables, then concatenate and deduplicate the month
Aggregate ==
    /\ pc \in {"Empty", "DayFlushed"}
    /\ DayLoopDone
    /\ LET refs == create_reference_tables(all_raw_dfs) IN
         IF refs.raised
         THEN /\ pc' = "Raised"
              /\ UNCHANGED <<market_ref, runner_ref, combined_markets, combined_runner_static>>
         ELSE /\ pc' = "Deduplicated"
              /\ market_ref' = refs.market_ref
              /\ runner_ref' = refs.runner_ref
              /\ LET ms == Flatten(all_markets)
                     rss == Flatten(all_runner_static)
                 IN /\ combined_markets' =
                         sort_values(drop_duplicates(ms,
                             [k \in DOMAIN ms |-> MarketTimelineKey(ms[k])]))
                    /\ combined_runner_static' =
                         sort_values(drop_duplicates(rss,
                             [k \in DOMAIN rss |-> RunnerStatusKey(rss[k])]))
    /\ UNCHANGED <<todo, call, fs, stale, made_dir, days, dayIdx, bz2_files, fileIdx, df,
                   parsed, all_markets, all_runner_static, all_raw_dfs, day_runner_changes,
                   daily_prices_dir, written, result>>

WriteAlways(name, rows) == name :> rows

\* lines 281-295: `if not table.empty: table.to_parquet(...)`
WriteIfRows(name, rows) == IF rows # <<>> THEN name :> rows ELSE <<>>

\* lines 281-295: each non-empty monthly table is written
WriteTables ==
    /\ pc = "Deduplicated"
    /\ written' = WriteIfRows("market_reference", market_ref)
                  @@ WriteIfRows("runner_reference", runner_ref)
                  @@ WriteIfRows("market_timeline", combined_markets)
                  @@ WriteIfRows("runner_status", combined_runner_static)
    /\ pc' = "Written"
    /\ UNCHANGED <<todo, call, fs, stale, made_dir, days, dayIdx, bz2_files, fileIdx, df,
                   parsed, all_markets, all_runner_static, all_raw_dfs, day_runner_changes,
                   daily_prices_dir, market_ref, runner_ref, combined_markets,
                   combined_runner_static, result>>

\* line 297: the price files found in output_path/daily_prices
daily_files == stale \cup DOMAIN daily_prices_dir

\* lines 297-308: the summary
Report ==
    /\ pc = "Written"
    /\ result' = [returned |-> TRUE, none |-> FALSE,
                  num_markets |-> Len(market_ref),
                  num_runners |-> Len(runner_ref),
                  num_daily_files |-> Cardinality(daily_files)]
    /\ pc' = "Reported"
    /\ UNCHANGED <<todo, call, fs, stale, made_dir, days, dayIdx, bz2_files, fileIdx, df,
                   parsed, all_markets, all_runner_static, all_raw_dfs, day_runner_changes,
                   daily_prices_dir, market_ref, runner_ref, combined_markets,
                   combined_runner_static, written>>

Next ==
    \/ Call(MonthTrees)
    \/ BeginDay
    \/ ProcessFile
    \/ FlushDay
    \/ Aggregate
    \/ WriteTables
    \/ Report

Spec == Init /\ [][Next]_vars

\* ------------------------------------------------- main.py: all the months
months == <<"Jan", "Feb", "Mar", "Apr", "May", "Jun",
            "Jul", "Aug", "Sep", "Oct", "Nov", "Dec">>
years == <<2024, 2025>>

\* for y in years: for m in months
Units ==
    [k \in 1..(Len(years) * Len(months)) |->
        <<years[((k - 1) \div Len(months)) + 1], months[((k - 1) % Len(months)) + 1]>>]

InitMain ==
    /\ todo = Tail(Units)
    /\ call = Head(Units)
    /\ pc = "Idle"
    /\ df = <<>>
    /\ CallLocals

\* main.py lines 12-16: process_month returned (None or a summary); next month
MainLoop ==
    /\ pc \in {"Skipped", "Reported"}
    /\ todo # <<>>
    /\ call' = Head(todo)
    /\ todo' = Tail(todo)
    /\ pc' = "Idle"
    /\ df' = <<>>
    /\ fs' = NoTree
    /\ stale' = {}
    /\ made_dir' = FALSE
    /\ days' = <<>>
    /\ dayIdx' = 0
    /\ bz2_files' = <<>>
    /\ fileIdx' = 1
    /\ parsed' = NoFrames
    /\ all_markets' = <<>>
    /\ all_runner_static' = <<>>
    /\ all_raw_dfs' = <<>>
    /\ day_runner_changes' = <<>>
    /\ daily_prices_dir' = <<>>
    /\ market_ref' = <<>>
    /\ runner_ref' = <<>>
    /\ combined_markets' = <<>>
    /\ combined_runner_static' = <<>>
    /\ written' = <<>>
    /\ result' = NoResult

MainFiles == {Unreadable, FileDefRc, FileBadRunners}
MainTrees == TreesOver(MainFiles, 1, 1)

NextMain ==
    \/ Call(MainTrees)
    \/ BeginDay
    \/ ProcessFile
    \/ FlushDay
    \/ Aggregate
    \/ WriteTables
    \/ Report
    \/ MainLoop

SpecMain == InitMain /\ [][NextMain]_vars

\* --------------------------------- parse_betfair_stream on bounded frames
ParseDef(kind, runners) == MkDef("OPEN", FALSE, 1, "A", kind, runners)

ParseBlocks ==
    {MkBlock(1, <<ParseDef("list", <<MkRunner(10, "A", "ACTIVE"), MkRunner(11, None, "REMOVED")>>)>>,
             "list", <<MkChange(10, 1), MkChange(11, 2)>>),
     MkBlock(NoneN, <<ParseDef("absent", <<>>)>>, "list", <<MkChange(10, 3)>>),
     MkBlock(2, <<>>, "absent", <<>>),
     MkBlock(2, <<>>, "scalar", <<>>),
     MkBlock(2, <<ParseDef("scalar", <<>>)>>, "list", <<>>)}

ParseRows ==
    {MkRow(1, "absent", <<>>), MkRow(NoneN, "null", <<>>)}
    \cup {MkRow(2, "dict", <<b>>) : b \in ParseBlocks}
    \cup {MkRow(pt, "list", bs) : pt \in {1, 2}, bs \in SeqsUpTo(ParseBlocks, MaxBlocks)}

ParseFrames == SeqsUpTo(ParseRows, MaxRecords)

InitParse ==
    /\ todo = <<>>
    /\ call = <<2024, "Dec">>
    /\ pc = "Parse"
    /\ df \in ParseFrames
    /\ CallLocals

\* line 233: m, rs, rc = parse_betfair_stream(df)
ParseStep ==
    /\ pc = "Parse"
    /\ parsed' = parse_betfair_stream(df)
    /\ pc' = "Parsed"
    /\ UNCHANGED <<todo, call, fs, stale, made_dir, days, dayIdx, bz2_files, fileIdx, df,
                   all_markets, all_runner_static, all_raw_dfs, day_runner_changes,
                   daily_prices_dir, market_ref, runner_ref, combined_markets,
                   combined_runner_static, written, result>>

NextParse == ParseStep

SpecParse == InitParse /\ [][NextParse]_vars

\* ================================================================ claims
\* Reference notions used by the properties, stated over the input on disk.

Finished == {"Deduplicated", "Written", "Reported"}

\* the blocks of a record as the data model has them
BlocksOf(row) == IF row.mcKind \in {"list", "dict"} THEN row.mc ELSE <<>>

\* files of the month, days in ascending numeric order, files in read order
TraversalFiles ==
    IF ~fs.exists THEN <<>>
    ELSE Flatten([d \in DayNames |-> IF d \in DOMAIN fs.days THEN fs.days[d] ELSE <<>>])

Decodes(f) == f.readable /\ f.lines # <<>>

Malformed(b) ==
    \/ b.rcKind = "scalar"
    \/ b.marketDefinition # <<>> /\ b.marketDefinition[1].runnersKind = "scalar"

ParseFails(f) ==
    Decodes(f) /\ \E i \in DOMAIN f.lines : \E j \in DOMAIN BlocksOf(f.lines[i]) :
                      Malformed(BlocksOf(f.lines[i])[j])

FileFails(f) == ~Decodes(f) \/ ParseFails(f)

BlocksOfFile(f) == Flatten([i \in DOMAIN f.lines |-> BlocksOf(f.lines[i])])

IsDefBlock(b) == b.marketDefinition # <<>>

\* definition-bearing blocks of the retained (decoded) files, traversal order
RetainedDefBlocks ==
    SelectSeq(Flatten([k \in DOMAIN TraversalFiles |->
                  IF Decodes(TraversalFiles[k]) THEN BlocksOfFile(TraversalFiles[k]) ELSE <<>>]),
              IsDefBlock)

\* (market id, runner entry) of every nested runner, traversal order
RetainedRunners ==
    Flatten([k \in DOMAIN RetainedDefBlocks |->
        [n \in DOMAIN RetainedDefBlocks[k].marketDefinition[1].runners |->
            [market_id |-> RetainedDefBlocks[k].id,
             runner |-> RetainedDefBlocks[k].marketDefinition[1].runners[n]]]])

\* the first position of key k in a sequence of keys
FirstIndex(keys, k) == CHOOSE i \in DOMAIN keys : keys[i] = k /\ \A j \in 1..(i - 1) : keys[j] # k

MarketRefMatches(r, b) ==
    LET d == b.marketDefinition[1] IN
    /\ r.market_id = b.id
    /\ r.event_id = d.eventId
    /\ r.event_name = d.eventName
    /\ r.event_type_id = d.eventTypeId
    /\ r.market_name = d.name
    /\ r.market_type = d.marketType
    /\ r.market_time = d.marketTime
    /\ r.venue = d.venue
    /\ r.country_code = d.countryCode
    /\ r.number_of_winners = d.numberOfWinners

\* C1: once the reference tables are built, market_ref has exactly one row per
\* market id of a definition-bearing block and runner_ref exactly one row per
\* (market id, runner id) of a nested runner, and each row carries the values of
\* the first such block / runner in traversal order (no backfilling).
C1_FirstValueWins ==
    pc \in Finished =>
      LET defs == RetainedDefBlocks
          runners == RetainedRunners
      IN
        /\ \A i, j \in DOMAIN market_ref :
              i # j => market_ref[i].market_id # market_ref[j].market_id
        /\ {market_ref[i].market_id : i \in DOMAIN market_ref}
              = {defs[k].id : k \in DOMAIN defs}
        /\ \A i \in DOMAIN market_ref :
              MarketRefMatches(market_ref[i],
                  defs[FirstIndex([k \in DOMAIN defs |-> defs[k].id], market_ref[i].market_id)])
        /\ \A i, j \in DOMAIN runner_ref :
              i # j => <<runner_ref[i].market_id, runner_ref[i].runner_id>>
                          # <<runner_ref[j].market_id, runner_ref[j].runner_id>>
        /\ {<<runner_ref[i].market_id, runner_ref[i].runner_id>> : i \in DOMAIN runner_ref}
              = {<<runners[k].market_id, runners[k].runner.id>> : k \in DOMAIN runners}
        /\ \A i \in DOMAIN runner_ref :
              runner_ref[i].runner_name =
                  runners[FirstIndex([k \in DOMAIN runners |->
                                         <<runners[k].market_id, runners[k].runner.id>>],
                                     <<runner_ref[i].market_id, runner_ref[i].runner_id>>)].runner.name

\* a market whose first definition lacks the name that a later one carries,
\* and a runner in the same situation
C1_Witness ==
    /\ pc = "Reported"
    /\ LET defs == RetainedDefBlocks
           runners == RetainedRunners
       IN /\ \E i, j \in DOMAIN defs :
                /\ i < j
                /\ defs[i].id = defs[j].id
                /\ \A k \in 1..(i - 1) : defs[k].id # defs[i].id
                /\ defs[i].marketDefinition[1].name = None
                /\ defs[j].marketDefinition[1].name # None
          /\ \E i, j \in DOMAIN runners :
                /\ i < j
                /\ runners[i].market_id = runners[j].market_id
                /\ runners[i].runner.id = runners[j].runner.id
                /\ runners[i].runner.name # runners[j].runner.name

\* the frames of the files that decode and parse, traversal order
GoodFrames ==
    Flatten([k \in DOMAIN TraversalFiles |->
        IF FileFails(TraversalFiles[k]) THEN <<>> ELSE <<TraversalFiles[k].lines>>])

\* C2: a file that fails to decode or parse contributes no row to any output
\* table, and no such failure aborts the month.
C2_FailedFileContributesNothing ==
    /\ pc # "Raised"
    /\ pc \in Finished =>
          LET good == GoodFrames
              refs == create_reference_tables(good)
              ms == Flatten([k \in DOMAIN good |-> parse_betfair_stream(good[k]).m])
              rss == Flatten([k \in DOMAIN good |-> parse_betfair_stream(good[k]).rs])
          IN /\ market_ref = refs.market_ref
             /\ runner_ref = refs.runner_ref
             /\ Range(combined_markets) \subseteq Range(ms)
             /\ Range(combined_runner_static) \subseteq Range(rss)

\* the snapshot rows of the month in traversal order, before deduplication
MonthMarketRows == Flatten(all_markets)
MonthRunnerRows == Flatten(all_runner_static)

TimelineKey(r) == <<r.market_id, r.status, r.in_play, r.version>>
StatusKey(r) == <<r.market_id, r.runner_id, r.status>>

\* table (with keys tkeys) holds exactly the first row of every key of rows
\* (with keys rkeys), each key once
KeepsFirstPerKey(table, tkeys, rows, rkeys) ==
    /\ \A i, j \in DOMAIN table : i # j => tkeys[i] # tkeys[j]
    /\ \A i \in DOMAIN rows :
          (\A j \in 1..(i - 1) : rkeys[j] # rkeys[i]) => rows[i] \in Range(table)
    /\ \A i \in DOMAIN table :
          \E k \in DOMAIN rows :
              /\ rows[k] = table[i]
              /\ \A j \in 1..(k - 1) : rkeys[j] # rkeys[k]

TimelineKeys(rows) == [i \in DOMAIN rows |-> TimelineKey(rows[i])]
StatusKeys(rows) == [i \in DOMAIN rows |-> StatusKey(rows[i])]

\* C3: after the month-end deduplication market_timeline has one row per
\* (market_id, status, in_play, version) and runner_status one row per
\* (market_id, runner_id, status), each the first of its key in traversal order.
C3_DedupUniqueKeepFirst ==
    pc \in Finished =>
        LET ms == MonthMarketRows
            rss == MonthRunnerRows
        IN /\ KeepsFirstPerKey(combined_markets, TimelineKeys(combined_markets),
                               ms, TimelineKeys(ms))
           /\ KeepsFirstPerKey(combined_runner_static, StatusKeys(combined_runner_static),
                               rss, StatusKeys(rss))

\* both streams hold a key twice, with rows that differ
C3_Witness ==
    /\ pc = "Reported"
    /\ LET ms == MonthMarketRows
           rss == MonthRunnerRows
       IN /\ \E i, j \in DOMAIN ms :
                i < j /\ TimelineKey(ms[i]) = TimelineKey(ms[j]) /\ ms[i] # ms[j]
          /\ \E i, j \in DOMAIN rss :
                i < j /\ StatusKey(rss[i]) = StatusKey(rss[j]) /\ rss[i] # rss[j]

\* the price rows emitted by the files of day d that decode and parse
DayEmitted(d) ==
    Flatten([k \in DOMAIN fs.days[d] |->
        IF FileFails(fs.days[d][k]) THEN <<>>
        ELSE parse_betfair_stream(fs.days[d][k].lines).rc])

PriceKey(r) == <<r.market_id, r.publish_time>>

\* (market_id, publish_time) order, a null sorting behind every value
Before(a, b) ==
    LET Lt(x, y) == IF x = NoneN THEN FALSE ELSE IF y = NoneN THEN TRUE ELSE x < y
    IN \/ Lt(a.market_id, b.market_id)
       \/ a.market_id = b.market_id /\ Lt(a.publish_time, b.publish_time)

\* C4: the price file of a day holds exactly the rows its good files emitted,
\* non-decreasing by (market_id, publish_time), ties in traversal order.
C4_DailyPartitionSorted ==
    \A d \in DOMAIN daily_prices_dir :
        LET out == daily_prices_dir[d]
            emitted == DayEmitted(d)
        IN /\ Len(out) = Len(emitted)
           /\ \A i, j \in DOMAIN out : i < j => ~Before(out[j], out[i])
           /\ \A key \in {PriceKey(emitted[i]) : i \in DOMAIN emitted} :
                 LET HasKey(r) == PriceKey(r) = key
                 IN SelectSeq(out, HasKey) = SelectSeq(emitted, HasKey)

\* two days written; one of them had rows out of order and distinct rows that tie
C4_Witness ==
    /\ Cardinality(DOMAIN daily_prices_dir) >= 2
    /\ \E d \in DOMAIN daily_prices_dir :
          LET emitted == DayEmitted(d)
          IN /\ daily_prices_dir[d] # emitted
             /\ \E i, j \in DOMAIN emitted :
                   i < j /\ PriceKey(emitted[i]) = PriceKey(emitted[j]) /\ emitted[i] # emitted[j]

\* C5: the summary counts only what this run produced.
C5_SummaryCountsThisRun ==
    pc = "Reported" =>
        /\ result.num_daily_files = Cardinality(DOMAIN daily_prices_dir)
        /\ result.num_markets = Len(market_ref)
        /\ result.num_runners = Len(runner_ref)

\* a stale price file of a day this run did not write
C5_StaleFileCounted ==
    /\ pc = "Reported"
    /\ stale \ DOMAIN daily_prices_dir # {}

DayHasRows(d) == DayEmitted(d) # <<>>

PhaseOrder ==
    {<<"Idle", "Empty">>, <<"Idle", "Skipped">>, <<"Empty", "Accumulating">>,
     <<"Empty", "Deduplicated">>, <<"Accumulating", "DayFlushed">>,
     <<"DayFlushed", "Accumulating">>, <<"DayFlushed", "Deduplicated">>,
     <<"Deduplicated", "Written">>, <<"Written", "Reported">>}

\* what the order of the phases requires of a state
PhaseState ==
    /\ pc = "Accumulating" =>
          \A k \in DOMAIN days :
              /\ k < dayIdx => (days[k] \in DOMAIN daily_prices_dir <=> DayHasRows(days[k]))
              /\ k >= dayIdx => days[k] \notin DOMAIN daily_prices_dir
    /\ pc \in Finished =>
          /\ dayIdx = Len(days)
          /\ \A k \in DOMAIN days :
                days[k] \in DOMAIN daily_prices_dir <=> DayHasRows(days[k])
    /\ written # <<>> => pc \in {"Written", "Reported"}
    /\ (result.returned /\ ~result.none) => pc = "Reported"

\* C6: a month run goes Empty, Accumulating, DayFlushed (per day), Deduplicated,
\* Written, Reported: the price file of a day is written when its last file is
\* done and before a later day is read, the monthly tables are written once,
\* after the last day and the deduplication, and the summary comes last.
C6_PhaseOrder ==
    [][/\ PhaseState
       /\ (pc' # pc /\ pc' # "Raised") => <<pc, pc'>> \in PhaseOrder
       /\ daily_prices_dir' # daily_prices_dir =>
             /\ pc = "Accumulating" /\ fileIdx > Len(bz2_files) /\ pc' = "DayFlushed"
             /\ DOMAIN daily_prices_dir' = DOMAIN daily_prices_dir \cup {days[dayIdx]}
       /\ written' # written =>
             pc = "Deduplicated" /\ pc' = "Written" /\ written = <<>>
       /\ result' # result =>
             \/ pc = "Written" /\ pc' = "Reported"
             \/ pc = "Idle" /\ pc' = "Skipped"]_vars

\* a reported month of two days, both with a price file, and monthly tables
C6_Witness ==
    /\ pc = "Reported"
    /\ Len(days) = 2
    /\ Cardinality(DOMAIN daily_prices_dir) = 2
    /\ written # <<>>

\* C7: a month without an input directory ends Skipped: None is returned, no
\* output directory is made, nothing is written, and main calls process_month
\* for the next month.
C7_MissingMonthSkipped ==
    [][/\ pc' = "Skipped" =>
             /\ ~fs'.exists
             /\ result'.returned /\ result'.none
             /\ ~made_dir'
             /\ written' = <<>>
             /\ daily_prices_dir' = <<>>
       /\ (pc = "Idle" /\ ~fs'.exists) => pc' = "Skipped"
       /\ pc' = "Raised" => fs'.exists
       /\ pc = "Skipped" =>
             /\ pc' = "Idle"
             /\ todo # <<>>
             /\ call' = Head(todo)
             /\ todo' = Tail(todo)]_vars

\* a month of the second year is skipped: main went on past the first year
C7_Witness ==
    /\ pc = "Skipped"
    /\ call = <<2025, "Feb">>

\* C8: no zero-row file is written: a monthly table is written exactly when it
\* has a row, a day's price file exactly when the day's files yielded a row.
C8_NoZeroRowFiles ==
    /\ \A d \in DOMAIN daily_prices_dir : daily_prices_dir[d] # <<>>
    /\ \A n \in DOMAIN written : written[n] # <<>>
    /\ \A k \in DOMAIN days :
          (k < dayIdx \/ (k = dayIdx /\ pc # "Accumulating")) =>
              (days[k] \in DOMAIN daily_prices_dir <=> DayHasRows(days[k]))
    /\ pc \in {"Written", "Reported"} =>
          /\ "market_reference" \in DOMAIN written <=> market_ref # <<>>
          /\ "runner_reference" \in DOMAIN written <=> runner_ref # <<>>
          /\ "market_timeline" \in DOMAIN written <=> combined_markets # <<>>
          /\ "runner_status" \in DOMAIN written <=> combined_runner_static # <<>>

\* some tables and days have rows and are written, others have none and are not
C8_Witness ==
    /\ pc = "Reported"
    /\ "market_timeline" \in DOMAIN written
    /\ "runner_status" \notin DOMAIN written
    /\ Len(days) = 2
    /\ Cardinality(DOMAIN daily_prices_dir) = 1

MarketState(r) == <<r.status, r.in_play, r.version>>
SameMarketRow(a, b) == a.market_id = b.market_id
SameRunnerRow(a, b) == a.market_id = b.market_id /\ a.runner_id = b.runner_id

\* j is the snapshot of the same entity that precedes i
MarketPrecedes(rows, j, i) ==
    /\ j < i
    /\ SameMarketRow(rows[j], rows[i])
    /\ \A k \in (j + 1)..(i - 1) : ~SameMarketRow(rows[k], rows[i])

RunnerPrecedes(rows, j, i) ==
    /\ j < i
    /\ SameRunnerRow(rows[j], rows[i])
    /\ \A k \in (j + 1)..(i - 1) : ~SameRunnerRow(rows[k], rows[i])

\* C9 as claimed: every snapshot whose state differs from the preceding snapshot
\* of the same market (runner) has a row in the deduplicated table.
C9_EveryTransitionKept ==
    pc \in Finished =>
        LET ms == MonthMarketRows
            rss == MonthRunnerRows
        IN /\ \A i \in DOMAIN ms : \A j \in 1..(i - 1) :
                 (MarketPrecedes(ms, j, i) /\ MarketState(ms[j]) # MarketState(ms[i]))
                    => ms[i] \in Range(combined_markets)
           /\ \A i \in DOMAIN rss : \A j \in 1..(i - 1) :
                 (RunnerPrecedes(rss, j, i) /\ rss[j].status # rss[i].status)
                    => rss[i] \in Range(combined_runner_static)

\* C9 amended: every snapshot whose state differs from that of all earlier
\* snapshots of the same market (runner) has a row in the deduplicated table.
C9_EveryNewStateKept ==
    pc \in Finished =>
        LET ms == MonthMarketRows
            rss == MonthRunnerRows
        IN /\ \A i \in DOMAIN ms :
                 (\A j \in 1..(i - 1) :
                     SameMarketRow(ms[j], ms[i]) => MarketState(ms[j]) # MarketState(ms[i]))
                    => ms[i] \in Range(combined_markets)
           /\ \A i \in DOMAIN rss :
                 (\A j \in 1..(i - 1) :
                     SameRunnerRow(rss[j], rss[i]) => rss[j].status # rss[i].status)
                    => rss[i] \in Range(combined_runner_static)

\* a market and a runner each change to a state not seen before
C9_Witness ==
    /\ pc = "Reported"
    /\ LET ms == MonthMarketRows
           rss == MonthRunnerRows
       IN /\ \E i \in DOMAIN ms :
                /\ \E j \in 1..(i - 1) : SameMarketRow(ms[j], ms[i])
                /\ \A j \in 1..(i - 1) :
                      SameMarketRow(ms[j], ms[i]) => MarketState(ms[j]) # MarketState(ms[i])
          /\ \E i \in DOMAIN rss :
                /\ \E j \in 1..(i - 1) : SameRunnerRow(rss[j], rss[i])
                /\ \A j \in 1..(i - 1) :
                      SameRunnerRow(rss[j], rss[i]) => rss[j].status # rss[i].status

\* the (record, block) pairs of a frame, in order
FrameBlocks(frame) ==
    Flatten([i \in DOMAIN frame |->
        [j \in DOMAIN BlocksOf(frame[i]) |-> [pt |-> frame[i].pt, b |-> BlocksOf(frame[i])[j]]]])

====
